---- MODULE Spec2Model ----
(***************************************************************************)
(* django_cubes/api.py: the views that translate HTTP query parameters     *)
(* into cubes browser calls.  One request is served at a time by a fresh   *)
(* view instance: the handler runs (together with initialize_request) and  *)
(* then the response is returned and the request-scoped objects dropped.   *)
(* The views share nothing but the class attribute CubesView.workspace,    *)
(* which no code path assigns, so serving requests one after the other     *)
(* loses no behaviour of concurrent requests.                              *)
(*                                                                         *)
(* Python values:  None is <<>>, a present optional value v is <<v>>.      *)
(* Parameter values that the code parses (depth, page, order, fields ...)  *)
(* are sequences of one-character strings; names that are only looked up   *)
(* (cube, dimension, hierarchy, level) are strings, "" being the empty     *)
(* name.                                                                   *)
(***************************************************************************)
EXTENDS Integers, Sequences, FiniteSets, TLC

VARIABLES
    workspace,          \* CubesView.workspace, the class attribute
    authorizer,         \* workspace.authorizer, as the slicer config sets it
    error_logging,      \* whether the root logger is enabled for ERROR
    views,              \* view instances created so far (one per request)
    constructed,        \* runs of the Workspace(...) constructor so far
    pc,                 \* "idle" | "done"
    self_workspace,     \* self.workspace of the view serving the request
    request,            \* the request being served (None when idle)
    response,           \* its outcome and body (None when idle)
    browser_calls,      \* engine operations invoked while serving it
    authorizer_calls    \* restricted_cell calls made while serving it

vars == <<workspace, authorizer, error_logging, views, constructed, pc, self_workspace,
          request, response, browser_calls, authorizer_calls>>

None == <<>>
Some(v) == <<v>>

\* Python truth value of an optional str or list (None, "" and [] are false),
\* and of an optional name.
Truthy(o) == o # None /\ o[1] # <<>>
TruthyName(o) == o # None /\ o[1] # ""

\* ---------------------------------------------------------------- bounds
MaxRequests == 2      \* requests served in one run of the process
MaxCutParams == 2     \* occurrences of a repeated cut parameter
MaxDepthLen == 2      \* characters of a depth value
MaxOrderParams == 2   \* occurrences of the order parameter
MaxOrderChars == 4    \* characters of all order occurrences together

\* ------------------------------------------------------- the slicer model
\* What workspace.cube(), cube.dimension(), dimension.hierarchy() and
\* hierarchy.level_index() answer from: one cube with two dimensions.  An
\* unknown cube raises NoSuchCubeError and an unknown dimension KeyError, as
\* the handlers of lines 52 and 315 expect; an unknown hierarchy or level
\* raises an exception of the cubes library.
CubeNames == {"sales"}
Dimensions == {"date", "geo"}
DefaultHierarchy == [date |-> "ymd", geo |-> "cc"]
Hierarchies ==
    [date |-> [ymd |-> <<"year", "month", "day">>, ym |-> <<"year", "month">>],
     geo  |-> [cc |-> <<"country", "city">>]]
AllAttributes == << <<"a">>, <<"b">> >>

\* ------------------------------------------------------------ str helpers
RECURSIVE split(_, _)
\* str.split(sep) for a one-character separator
split(s, sep) ==
    IF \A i \in 1..Len(s) : s[i] # sep
    THEN <<s>>
    ELSE LET i == CHOOSE k \in 1..Len(s) :
                      s[k] = sep /\ \A j \in 1..(k - 1) : s[j] # sep
         IN <<SubSeq(s, 1, i - 1)>> \o split(SubSeq(s, i + 1, Len(s)), sep)

Digits == {"0", "1", "2", "3", "4", "5", "6", "7", "8", "9"}
DigitValue(c) == CHOOSE n \in 0..9 : <<"0","1","2","3","4","5","6","7","8","9">>[n + 1] = c

RECURSIVE strip(_)
\* str.strip() of blanks
strip(s) ==
    IF s = <<>> THEN s
    ELSE IF Head(s) = " " THEN strip(Tail(s))
    ELSE IF s[Len(s)] = " " THEN strip(SubSeq(s, 1, Len(s) - 1))
    ELSE s

RECURSIVE digits_value(_)
digits_value(s) ==
    IF s = <<>> THEN 0
    ELSE 10 * digits_value(SubSeq(s, 1, Len(s) - 1)) + DigitValue(s[Len(s)])

\* int(s): [raised |-> ValueError?, value |-> the integer]
int(s) ==
    LET t == strip(s)
        signed == t # <<>> /\ Head(t) \in {"-", "+"}
        body == IF signed THEN Tail(t) ELSE t
        ok == body # <<>> /\ \A i \in 1..Len(body) : body[i] \in Digits
    IN  IF ~ok THEN [raised |-> TRUE, value |-> 0]
        ELSE [raised |-> FALSE,
              value |-> IF signed /\ Head(t) = "-"
                        THEN 0 - digits_value(body) ELSE digits_value(body)]

RECURSIVE concat(_)
\* the concatenation of a sequence of sequences
concat(ss) == IF ss = <<>> THEN <<>> ELSE Head(ss) \o concat(Tail(ss))

\* QueryDict.get(key, None): the last occurrence, None when there is none
get(values) == IF values = <<>> THEN None ELSE Some(values[Len(values)])

\* ------------------------------------------------------------ cuts, cells
Cut(dimension, path) == [type |-> "point", dimension |-> dimension, path |-> path]
Cell(cube, cuts) == [cube |-> cube, cuts |-> cuts]

\* Cell.__nonzero__: a cell is true when it has cuts
cell_truthy(cell) == cell # None /\ cell[1].cuts # <<>>

\* cubes.browser.cuts_from_string: a cut string is its "|"-separated cuts, each
\* <<dimension, path>>; a cut on a dimension the cube lacks raises.
cuts_from_string(cut_string) ==
    IF \E i \in 1..Len(cut_string) : cut_string[i][1] \notin Dimensions
    THEN [raised |-> TRUE, cuts |-> <<>>]
    ELSE [raised |-> FALSE,
          cuts |-> IF cut_string = <<>> THEN <<>>
                   ELSE [i \in 1..Len(cut_string) |->
                            Cut(cut_string[i][1], cut_string[i][2])]]

\* cubes.cut_from_dict
cut_from_dict(desc) == Cut(desc.dimension, desc.path)

\* workspace.authorizer.restricted_cell(user, cube, cell): an open authorizer
\* returns the cell it was given (None for None); a restricting one returns
\* the cell narrowed by the user's restriction cut.
RestrictionCut == Cut("geo", "eu")
restricted_cell(cube, cell) ==
    IF authorizer = "restricting"
    THEN Some(Cell(cube, (IF cell = None THEN <<>> ELSE cell[1].cuts)
                          \o <<RestrictionCut>>))
    ELSE cell

\* get_cell without its restriction step (lines 77-81 left out).
get_cell_unrestricted(q, argname, restrict) ==
    LET strings == q.query_params[argname]
        parsed == [i \in 1..Len(strings) |-> cuts_from_string(strings[i])]
        cuts == IF strings = <<>> THEN <<>>
                ELSE concat([i \in 1..Len(strings) |-> parsed[i].cuts])
        cell == IF cuts # <<>> THEN Some(Cell(q.cube_name, cuts)) ELSE None
    IN  IF \E i \in 1..Len(strings) : parsed[i].raised
        THEN [raised |-> TRUE, cell |-> None, auth |-> <<>>]
        ELSE [raised |-> FALSE, cell |-> cell, auth |-> <<>>]

\* CubesView.get_cell: [raised, cell, auth], auth being the restricted_cell
\* calls it made, each with the cell passed and the cell returned.
get_cell(q, argname, restrict) ==
    LET strings == q.query_params[argname]
        parsed == [i \in 1..Len(strings) |-> cuts_from_string(strings[i])]
        cuts == IF strings = <<>> THEN <<>>
                ELSE concat([i \in 1..Len(strings) |-> parsed[i].cuts])
        cell == IF cuts # <<>> THEN Some(Cell(q.cube_name, cuts)) ELSE None
    IN  IF \E i \in 1..Len(strings) : parsed[i].raised
        THEN [raised |-> TRUE, cell |-> None, auth |-> <<>>]
        ELSE IF restrict /\ authorizer # "none"
        THEN [raised |-> FALSE,
              cell |-> restricted_cell(q.cube_name, cell),
              auth |-> <<[cell |-> cell,
                          returned |-> restricted_cell(q.cube_name, cell)]>>]
        ELSE [raised |-> FALSE, cell |-> cell, auth |-> <<>>]

\* --------------------------------------------------- pagination and order
\* Lines 115-119 with the direction of an item dropped.
order_item_no_direction(item) == <<item, None>>

\* One item of an order occurrence (lines 115-119): (field, direction)
order_item(item) ==
    LET parts == split(item, ":")
    IN  IF Len(parts) = 1 THEN <<item, None>>
        ELSE <<parts[1], Some(parts[2])>>

\* All items of one order occurrence
order_items(orders) ==
    LET items == split(orders, ",")
    IN  [i \in 1..Len(items) |-> order_item(items[i])]

\* CubesView._handle_pagination_and_order: the request with page, page_size
\* and order set.  QueryDict.get raises no ValueError, so page and page_size
\* are the raw parameter values.
handle_pagination_and_order(q) ==
    LET occurrences == q.query_params.order
    IN  [q EXCEPT
            !.page = get(q.query_params.page),
            !.page_size = get(q.query_params.pagesize),
            !.order = IF occurrences = <<>> THEN <<>>
                      ELSE concat([i \in 1..Len(occurrences) |->
                                      order_items(occurrences[i])])]

\* CubesView.initialize_request
initialize_request(q) == handle_pagination_and_order(q)

\* ---------------------------------------------------------------- results
\* What serving a request comes to: the outcome ("ok", "bad_request" for an
\* ErrorResponse with HTTP 400, "not_found" for Http404, "error" for an
\* exception no handler catches), the response body, and the engine and
\* authorizer calls made on the way.
Result(outcome, body, browser, auth) ==
    [outcome |-> outcome, body |-> body, browser |-> browser, auth |-> auth]

\* The error path of a handler (lines 235-237, 316-318, 327-329, 334-336):
\* logging.error(message, request=request), then raise ErrorResponse(400).
\* Logger._log takes no keyword `request`: when the logger is enabled for
\* ERROR the logging call raises TypeError and the ErrorResponse is never
\* raised.
error_response(message, auth) ==
    IF error_logging THEN Result("error", None, <<>>, auth)
    ELSE Result("bad_request", Some(message), <<>>, auth)

\* CubesView.get_cube raising Http404
unknown_cube(q) == q.cube_name \notin CubeNames

\* ------------------------------------------------------------- aggregate
RECURSIVE split_all(_, _)
\* the concatenation of value.split(sep) over the occurrences of a parameter
split_all(values, sep) ==
    IF values = <<>> THEN <<>>
    ELSE split(Head(values), sep) \o split_all(Tail(values), sep)

\* CubeAggregation.get
CubeAggregation_get(q) ==
    LET c == get_cell(q, "cut", TRUE)
        s == get_cell(q, "split", FALSE)
    IN  IF unknown_cube(q) THEN Result("not_found", None, <<>>, <<>>)
        ELSE IF c.raised THEN Result("error", None, <<>>, <<>>)
        ELSE IF s.raised THEN Result("error", None, <<>>, c.auth)
        ELSE Result("ok", Some("result"),
                    <<[op |-> "aggregate", cell |-> c.cell,
                       aggregates |-> split_all(q.query_params.aggregates, "|"),
                       drilldown |-> split_all(q.query_params.drilldown, "|"),
                       split |-> s.cell, page |-> q.page,
                       page_size |-> q.page_size, order |-> q.order]>>,
                    c.auth \o s.auth)

\* ----------------------------------------------------------- cell details
\* CubeCell.get: the details are zipped with the cuts of cell.to_dict()
CubeCell_get(q) ==
    LET c == get_cell(q, "cut", TRUE)
        cell == IF ~cell_truthy(c.cell) THEN Cell(q.cube_name, <<>>)
                ELSE c.cell[1]
    IN  IF unknown_cube(q) THEN Result("not_found", None, <<>>, <<>>)
        ELSE IF c.raised THEN Result("error", None, <<>>, <<>>)
        ELSE Result("ok",
                    Some([cube |-> cell.cube,
                          cuts |-> IF cell.cuts = <<>> THEN <<>>
                                   ELSE [i \in 1..Len(cell.cuts) |->
                                           [cut |-> cell.cuts[i],
                                            details |-> "detail"]]]),
                    <<[op |-> "cell_details", cell |-> c.cell]>>,
                    c.auth)

\* ------------------------------------------------------------------ report
\* Lines 239-257 with the URL cuts merged into the report's cell instead of
\* being replaced by it.
report_cell_merged(cube, cell_cuts, cell) ==
    IF Truthy(cell_cuts)
    THEN LET cuts == (IF cell = None THEN <<>> ELSE cell[1].cuts)
                     \o [i \in 1..Len(cell_cuts[1]) |-> cut_from_dict(cell_cuts[1][i])]
             built == Some(Cell(cube, cuts))
         IN  IF authorizer # "none"
             THEN [cell |-> restricted_cell(cube, built),
                   auth |-> <<[cell |-> built,
                               returned |-> restricted_cell(cube, built)]>>]
             ELSE [cell |-> built, auth |-> <<>>]
    ELSE [cell |-> IF ~cell_truthy(cell) THEN Some(Cell(cube, <<>>)) ELSE cell,
          auth |-> <<>>]

\* Lines 239-257 of make_report: the cell of the report, from the body's
\* cell_cuts (report_request.get("cell")) and the cell get_cell returned.
report_cell(cube, cell_cuts, cell) ==
    IF Truthy(cell_cuts)
    THEN LET cuts == [i \in 1..Len(cell_cuts[1]) |-> cut_from_dict(cell_cuts[1][i])]
             built == Some(Cell(cube, cuts))
         IN  IF authorizer # "none"
             THEN [cell |-> restricted_cell(cube, built),
                   auth |-> <<[cell |-> built,
                               returned |-> restricted_cell(cube, built)]>>]
             ELSE [cell |-> built, auth |-> <<>>]
    ELSE [cell |-> IF ~cell_truthy(cell) THEN Some(Cell(cube, <<>>)) ELSE cell,
          auth |-> <<>>]

\* make_report with browser.report called ahead of the `queries` lookup.
make_report_unchecked(q) ==
    LET c == get_cell(q, "cut", TRUE)
        r == report_cell(q.cube_name, q.DATA.cell, c.cell)
        call == [op |-> "report", cell |-> r.cell, queries |-> q.DATA.queries]
    IN  IF unknown_cube(q) THEN Result("not_found", None, <<>>, <<>>)
        ELSE IF c.raised THEN Result("error", None, <<>>, <<>>)
        ELSE IF q.DATA.queries = None
        THEN [error_response("Report request does not contain 'queries' key",
                             c.auth \o r.auth)
                 EXCEPT !.browser = <<call>>]
        ELSE Result("ok", Some("report"), <<call>>, c.auth \o r.auth)

\* CubeReport.make_report
make_report(q) ==
    LET c == get_cell(q, "cut", TRUE)
        r == report_cell(q.cube_name, q.DATA.cell, c.cell)
    IN  IF unknown_cube(q) THEN Result("not_found", None, <<>>, <<>>)
        ELSE IF c.raised THEN Result("error", None, <<>>, <<>>)
        ELSE IF q.DATA.queries = None
        THEN error_response("Report request does not contain 'queries' key",
                            c.auth)
        ELSE Result("ok", Some("report"),
                    <<[op |-> "report", cell |-> r.cell,
                       queries |-> q.DATA.queries]>>,
                    c.auth \o r.auth)

\* ------------------------------------------------------------- facts, fact
\* CubeFacts.get: cube.get_attributes raises on an unknown attribute name
CubeFacts_get(q) ==
    LET c == get_cell(q, "cut", TRUE)
        fields_str == get(q.query_params.fields)
        names == IF Truthy(fields_str) THEN split(fields_str[1], ",")
                 ELSE AllAttributes
        known == {AllAttributes[i] : i \in 1..Len(AllAttributes)}
    IN  IF unknown_cube(q) THEN Result("not_found", None, <<>>, <<>>)
        ELSE IF c.raised THEN Result("error", None, <<>>, <<>>)
        ELSE IF \E i \in 1..Len(names) : names[i] \notin known
        THEN Result("error", None, <<>>, c.auth)
        ELSE Result("ok", Some("facts"),
                    <<[op |-> "facts", cell |-> c.cell, fields |-> names,
                       page |-> q.page, page_size |-> q.page_size,
                       order |-> q.order]>>,
                    c.auth)

\* CubeFact.get
CubeFact_get(q) ==
    IF unknown_cube(q) THEN Result("not_found", None, <<>>, <<>>)
    ELSE Result("ok", Some("fact"),
                <<[op |-> "fact", fact_id |-> q.fact_id]>>, <<>>)

\* ----------------------------------------------------------------- members
\* hierarchy.level_index(level): [raised, value], value counted from 0
level_index(levels, level) ==
    IF \A i \in 1..Len(levels) : levels[i] # level
    THEN [raised |-> TRUE, value |-> 0]
    ELSE [raised |-> FALSE,
          value |-> (CHOOSE i \in 1..Len(levels) : levels[i] = level) - 1]

\* Lines 326-340 with the level's index taken as the depth.
resolve_depth_at_index(depth, level, levels) ==
    IF Truthy(depth) /\ TruthyName(level)
    THEN [outcome |-> "bad_request", depth |-> None,
          message |-> "Both depth and level provided, use only one (preferably level)"]
    ELSE IF Truthy(depth)
    THEN IF int(depth[1]).raised
         THEN [outcome |-> "bad_request", depth |-> None,
               message |-> "depth should be an integer"]
         ELSE [outcome |-> "ok", depth |-> Some(int(depth[1]).value), message |-> ""]
    ELSE IF TruthyName(level)
    THEN IF level_index(levels, level[1]).raised
         THEN [outcome |-> "error", depth |-> None, message |-> ""]
         ELSE [outcome |-> "ok", message |-> "",
               depth |-> Some(level_index(levels, level[1]).value)]
    ELSE [outcome |-> "ok", depth |-> Some(Len(levels)), message |-> ""]

\* Lines 326-340 of CubeMembers.get: the depth from the depth and level
\* parameters and the levels of the hierarchy.
resolve_depth(depth, level, levels) ==
    IF Truthy(depth) /\ TruthyName(level)
    THEN [outcome |-> "bad_request", depth |-> None,
          message |-> "Both depth and level provided, use only one (preferably level)"]
    ELSE IF Truthy(depth)
    THEN IF int(depth[1]).raised
         THEN [outcome |-> "bad_request", depth |-> None,
               message |-> "depth should be an integer"]
         ELSE [outcome |-> "ok", depth |-> Some(int(depth[1]).value), message |-> ""]
    ELSE IF TruthyName(level)
    THEN IF level_index(levels, level[1]).raised
         THEN [outcome |-> "error", depth |-> None, message |-> ""]
         ELSE [outcome |-> "ok", message |-> "",
               depth |-> Some(level_index(levels, level[1]).value + 1)]
    ELSE [outcome |-> "ok", depth |-> Some(Len(levels)), message |-> ""]

\* CubeMembers.get
CubeMembers_get(q) ==
    LET c == get_cell(q, "cut", TRUE)
        dimension == q.dimension_name
        hier_name == get(q.query_params.hierarchy)
        hierarchy == IF hier_name = None THEN DefaultHierarchy[dimension]
                     ELSE hier_name[1]
        levels == Hierarchies[dimension][hierarchy]
        d == resolve_depth(get(q.query_params.depth),
                           get(q.query_params.level), levels)
    IN  IF unknown_cube(q) THEN Result("not_found", None, <<>>, <<>>)
        ELSE IF c.raised THEN Result("error", None, <<>>, <<>>)
        ELSE IF dimension \notin Dimensions
        THEN error_response("Dimension was not found", c.auth)
        ELSE IF hierarchy \notin DOMAIN Hierarchies[dimension]
        THEN Result("error", None, <<>>, c.auth)
        ELSE IF d.outcome = "bad_request"
        THEN error_response(d.message, c.auth)
        ELSE IF d.outcome = "error"
        THEN Result("error", None, <<>>, c.auth)
        ELSE Result("ok",
                    Some([dimension |-> dimension, hierarchy |-> hierarchy,
                          depth |-> IF d.depth = None THEN Len(levels)
                                    ELSE d.depth[1],
                          data |-> "values"]),
                    <<[op |-> "members", cell |-> c.cell,
                       dimension |-> dimension, depth |-> d.depth,
                       hierarchy |-> hierarchy, page |-> q.page,
                       page_size |-> q.page_size]>>,
                    c.auth)

\* ------------------------------------------------------------ the requests
\* Sequences over S of length at most n
Lists(S, n) == UNION {[1..k -> S] : k \in 0..n}

NoParams ==
    [cut |-> <<>>, split |-> <<>>, page |-> <<>>, pagesize |-> <<>>,
     order |-> <<>>, aggregates |-> <<>>, drilldown |-> <<>>, fields |-> <<>>,
     hierarchy |-> <<>>, depth |-> <<>>, level |-> <<>>]
NoData == [queries |-> None, cell |-> None]

\* A request as the view receives it: URL arguments, query parameters (each
\* the list of its occurrences), body; page, page_size and order are the
\* attributes initialize_request sets.
Request(endpoint, cube_name, query_params) ==
    [endpoint |-> endpoint, cube_name |-> cube_name, dimension_name |-> "",
     fact_id |-> "", query_params |-> query_params, DATA |-> NoData,
     page |-> None, page_size |-> None, order |-> <<>>]

CubeNameInputs == {"sales", "nocube"}
TwoCuts == << <<"date", "2004">>, <<"geo", "sk">> >>
BadCut == << <<"nodim", "1">> >>
CutStrings == {<<>>, TwoCuts, BadCut}
CutInputs == Lists(CutStrings, MaxCutParams)
PageInputs == {<<>>, << <<"1">> >>, << <<"x">> >>}
PageSizeInputs == {<<>>, << <<"x">> >>}
OrderInputs == {<<>>, << <<"f", ":", "d">> >>}

AggregateRequests ==
    {Request("aggregate", cube,
             [NoParams EXCEPT !.cut = cut, !.split = sp, !.page = page,
                              !.pagesize = pagesize, !.order = order,
                              !.aggregates = agg, !.drilldown = dd]) :
        cube \in CubeNameInputs, cut \in CutInputs,
        sp \in {<<>>, <<TwoCuts>>}, page \in PageInputs,
        pagesize \in PageSizeInputs, order \in OrderInputs,
        agg \in {<<>>, << <<"s", "|", "c">> >>}, dd \in {<<>>, << <<"d">> >>}}

CellRequests ==
    {Request("cell", cube, [NoParams EXCEPT !.cut = cut]) :
        cube \in CubeNameInputs, cut \in CutInputs}

BodyCuts ==
    << [type |-> "point", dimension |-> "date", path |-> "2010"],
       [type |-> "point", dimension |-> "geo", path |-> "cz"] >>
ReportRequests ==
    {[Request("report", cube, [NoParams EXCEPT !.cut = cut])
        EXCEPT !.DATA = [queries |-> queries, cell |-> cell]] :
        cube \in CubeNameInputs, cut \in CutInputs,
        queries \in {None, Some(<<"q">>)},
        cell \in {None, Some(<<>>), Some(SubSeq(BodyCuts, 1, 1)), Some(BodyCuts)}}

FactsRequests ==
    {Request("facts", cube,
             [NoParams EXCEPT !.cut = cut, !.fields = fields, !.page = page,
                              !.pagesize = pagesize, !.order = order]) :
        cube \in CubeNameInputs, cut \in CutInputs,
        fields \in {<<>>, << <<>> >>, << <<"a">> >>, << <<"a", ",", "z">> >>},
        page \in PageInputs, pagesize \in PageSizeInputs, order \in OrderInputs}

FactRequests ==
    {[Request("fact", cube, NoParams) EXCEPT !.fact_id = "7"] :
        cube \in CubeNameInputs}

DepthChars == {"0", "1", "-", "x"}
DepthInputs ==
    {<<>>} \cup {<<s>> : s \in Lists(DepthChars, MaxDepthLen)}
LevelInputs == {<<>>, <<"">>, <<"month">>, <<"nolevel">>}
HierarchyInputs == {<<>>, <<"ym">>, <<"nohier">>}
MembersCutInputs == Lists({TwoCuts}, MaxCutParams) \cup {<<BadCut>>}
MembersRequests ==
    {[Request("members", cube,
              [NoParams EXCEPT !.cut = cut, !.hierarchy = hier,
                               !.depth = depth, !.level = level,
                               !.page = page])
        EXCEPT !.dimension_name = dim] :
        cube \in CubeNameInputs, cut \in MembersCutInputs,
        dim \in {"date", "geo", "nodim"}, hier \in HierarchyInputs,
        depth \in DepthInputs, level \in LevelInputs,
        page \in {<<>>, << <<"x">> >>}}

OrderChars == {"f", ",", ":"}
RECURSIVE OrderLists(_, _)
\* The order parameter: at most n occurrences of at most chars characters
\* together
OrderLists(n, chars) ==
    IF n = 0 THEN {<<>>}
    ELSE {<<>>} \cup
         UNION {{<<s>> \o rest : rest \in OrderLists(n - 1, chars - Len(s))} :
                   s \in Lists(OrderChars, chars)}
OrderedRequests ==
    {Request("facts", "sales", [NoParams EXCEPT !.order = order]) :
        order \in OrderLists(MaxOrderParams, MaxOrderChars)}

\* ------------------------------------------------------------- the actions
Init ==
    /\ workspace = None
    /\ authorizer \in {"none", "open", "restricting"}
    /\ error_logging \in BOOLEAN
    /\ views = 0
    /\ constructed = 0
    /\ pc = "idle"
    /\ self_workspace = None
    /\ request = None
    /\ response = None
    /\ browser_calls = <<>>
    /\ authorizer_calls = <<>>

Respond ==
    /\ pc = "done"
    /\ pc' = "idle"
    /\ self_workspace' = None
    /\ request' = None
    /\ response' = None
    /\ browser_calls' = <<>>
    /\ authorizer_calls' = <<>>
    /\ UNCHANGED <<workspace, authorizer, error_logging, views, constructed>>

\* CubesView.initialize_slicer on the view serving the request: a fresh view
\* has no workspace attribute of its own, so self.workspace reads the class
\* attribute; the assignment sets the attribute of the view, not of the class.
initialize_slicer ==
    IF workspace = None
    THEN [self_workspace |-> Some(constructed + 1), constructed |-> constructed + 1]
    ELSE [self_workspace |-> workspace, constructed |-> constructed]

\* A request can be received: none is being served
Idle == pc = "idle" /\ views < MaxRequests

\* One request: a view is created, initialize_request and then the handler
\* (get, post) run on it; q is the initialized request, r what the handler
\* comes to.
Serve(q, r) ==
    /\ request' = Some(q)
    /\ response' = Some([outcome |-> r.outcome, body |-> r.body])
    /\ browser_calls' = r.browser
    /\ authorizer_calls' = r.auth
    /\ views' = views + 1
    /\ self_workspace' = initialize_slicer.self_workspace
    /\ constructed' = initialize_slicer.constructed
    /\ pc' = "done"
    /\ UNCHANGED <<workspace, authorizer, error_logging>>

ServeAggregate ==
    /\ Idle
    /\ \E q0 \in AggregateRequests :
          Serve(initialize_request(q0), CubeAggregation_get(initialize_request(q0)))
ServeCell ==
    /\ Idle
    /\ \E q0 \in CellRequests :
          Serve(initialize_request(q0), CubeCell_get(initialize_request(q0)))
ServeReport ==
    /\ Idle
    /\ \E q0 \in ReportRequests :
          Serve(initialize_request(q0), make_report(initialize_request(q0)))
ServeFacts ==
    /\ Idle
    /\ \E q0 \in FactsRequests :
          Serve(initialize_request(q0), CubeFacts_get(initialize_request(q0)))
ServeFact ==
    /\ Idle
    /\ \E q0 \in FactRequests :
          Serve(initialize_request(q0), CubeFact_get(initialize_request(q0)))
ServeMembers ==
    /\ Idle
    /\ \E q0 \in MembersRequests :
          Serve(initialize_request(q0), CubeMembers_get(initialize_request(q0)))
ServeOrdered ==
    /\ Idle
    /\ \E q0 \in OrderedRequests :
          Serve(initialize_request(q0), CubeFacts_get(initialize_request(q0)))

Next ==
    \/ ServeAggregate
    \/ ServeCell
    \/ ServeReport
    \/ ServeFacts
    \/ ServeFact
    \/ ServeMembers
    \/ Respond

Spec == Init /\ [][Next]_vars

\* Requests that differ in their order parameter only
NextOrder == ServeOrdered \/ Respond
SpecOrder == Init /\ [][NextOrder]_vars

\* ------------------------------------------------------------- properties
Done == pc = "done"
Served(endpoint) == Done /\ request[1].endpoint = endpoint
Outcome == response[1].outcome
Params == request[1].query_params

\* The cuts of all occurrences of a cut parameter, in order, and the cell
\* made of them
RECURSIVE AllCuts(_)
AllCuts(strings) ==
    IF strings = <<>> THEN <<>>
    ELSE [i \in 1..Len(Head(strings)) |->
             Cut(Head(strings)[i][1], Head(strings)[i][2])]
         \o AllCuts(Tail(strings))
ComposedCell(cuts) ==
    IF cuts = <<>> THEN None ELSE Some(Cell(request[1].cube_name, cuts))
UrlCell == ComposedCell(AllCuts(Params.cut))
ReportCellCuts == request[1].DATA.cell
BodyCell ==
    ComposedCell([i \in 1..Len(ReportCellCuts[1]) |->
                     Cut(ReportCellCuts[1][i].dimension, ReportCellCuts[1][i].path)])
Explicit(cell) ==
    IF cell = None \/ cell[1].cuts = <<>>
    THEN Some(Cell(request[1].cube_name, <<>>)) ELSE cell

\* The engine received a main cell: the request got as far as its engine call
CellEndpoints == {"aggregate", "cell", "facts", "members", "report"}
EngineGotCell ==
    /\ Done
    /\ request[1].endpoint \in CellEndpoints
    /\ browser_calls # <<>>

\* The restriction as the plain endpoints make it: one restricted_cell call,
\* on the cell of all URL cuts, whose value the engine receives; the built
\* cell itself without an authorizer.
RestrictedOnce(composed) ==
    IF authorizer # "none"
    THEN /\ Len(authorizer_calls) = 1
         /\ authorizer_calls[1].cell = composed
         /\ browser_calls[1].cell = authorizer_calls[1].returned
    ELSE /\ authorizer_calls = <<>>
         /\ browser_calls[1].cell = composed

C2_ReportCellFromBodyOnly ==
    (Served("report") /\ Truthy(ReportCellCuts) /\ browser_calls # <<>>) =>
        LET cuts == browser_calls[1].cell[1].cuts
            url == AllCuts(Params.cut)
            body == BodyCell[1].cuts
        IN  /\ \A i \in 1..Len(cuts) : \A j \in 1..Len(url) : cuts[i] # url[j]
            /\ Len(cuts) >= Len(body)
            /\ SubSeq(cuts, 1, Len(body)) = body
            /\ \A i \in (Len(body) + 1)..Len(cuts) : cuts[i] = RestrictionCut

C2_Witness ==
    /\ Served("report")
    /\ Truthy(ReportCellCuts)
    /\ AllCuts(Params.cut) # <<>>
    /\ browser_calls # <<>>
    /\ Outcome = "ok"

\* The request names a cube of the workspace and its cut strings parse
Wellformed ==
    /\ request[1].cube_name \in CubeNames
    /\ \A i \in 1..Len(Params.cut) : \A j \in 1..Len(Params.cut[i]) :
           Params.cut[i][j][1] \in Dimensions

Supplied(values) == values # <<>>

\* The logging call of the error path returns
Quiet == ~error_logging

\* C3: a members request with both depth and level supplied ends in a
\* ValidationError (HTTP 400), whatever their values and the hierarchy.
\* Stated for values that are not empty.
C3_DepthAndLevelRejected ==
    (Served("members") /\ Wellformed /\ Quiet
        /\ Supplied(Params.depth) /\ Params.depth[1] # <<>>
        /\ Supplied(Params.level) /\ Params.level[1] # "") =>
        Outcome = "bad_request"

\* The hierarchy a members request resolves to, when it names a dimension of
\* the cube and a hierarchy of that dimension (or none)
HierarchyResolves ==
    /\ request[1].dimension_name \in Dimensions
    /\ Params.hierarchy # <<>> =>
           Params.hierarchy[1] \in DOMAIN Hierarchies[request[1].dimension_name]
ResolvedLevels ==
    Hierarchies[request[1].dimension_name]
               [IF Params.hierarchy = <<>>
                THEN DefaultHierarchy[request[1].dimension_name]
                ELSE Params.hierarchy[1]]

\* A decimal integer: an optional sign and at least one digit, blanks around
IsInteger(s) ==
    \E a, b \in 1..Len(s) :
        /\ a <= b
        /\ \A i \in 1..(a - 1) : s[i] = " "
        /\ \A i \in (b + 1)..Len(s) : s[i] = " "
        /\ \/ \A i \in a..b : s[i] \in Digits
           \/ a < b /\ s[a] \in {"-", "+"} /\ \A i \in (a + 1)..b : s[i] \in Digits
RECURSIVE Power10(_)
Power10(n) == IF n = 0 THEN 1 ELSE 10 * Power10(n - 1)
RECURSIVE Decimal(_)
\* the number a string of digits, signs and blanks denotes
Decimal(s) ==
    IF s = <<>> THEN 0
    ELSE IF Head(s) = "-" THEN 0 - Decimal(Tail(s))
    ELSE IF Head(s) \in Digits
    THEN DigitValue(Head(s))
             * Power10(Cardinality({i \in 2..Len(s) : s[i] \in Digits}))
         + Decimal(Tail(s))
    ELSE Decimal(Tail(s))

\* The depth the three rules give a valid members request
EffectiveDepth ==
    IF Supplied(Params.level)
    THEN CHOOSE i \in 1..Len(ResolvedLevels) : ResolvedLevels[i] = Params.level[1]
    ELSE IF Supplied(Params.depth) THEN Decimal(Params.depth[1])
    ELSE Len(ResolvedLevels)
ValidMembers ==
    /\ Served("members")
    /\ Wellformed
    /\ HierarchyResolves
    /\ ~(Supplied(Params.depth) /\ Supplied(Params.level))
    /\ Supplied(Params.depth) => IsInteger(Params.depth[1])
    /\ Supplied(Params.level) =>
           \E i \in 1..Len(ResolvedLevels) : ResolvedLevels[i] = Params.level[1]

\* C4: a valid members request succeeds with the depth index_of(level) + 1,
\* the parsed integer, or the length of the hierarchy; the engine is called
\* with that depth and the response echoes it.
C4_EffectiveDepth ==
    ValidMembers =>
        /\ Outcome = "ok"
        /\ Len(browser_calls) = 1
        /\ browser_calls[1].op = "members"
        /\ browser_calls[1].depth = Some(EffectiveDepth)
        /\ response[1].body[1].depth = EffectiveDepth

C4_Witness ==
    /\ ValidMembers
    /\ Params.level = <<"month">>
    /\ Params.hierarchy = <<>>
    /\ response[1].body[1].depth = 2

\* Malformed input of the kinds of C5
Malformed ==
    \/ /\ Served("members")
       /\ \/ Supplied(Params.depth) /\ Supplied(Params.level)
          \/ Supplied(Params.depth) /\ ~IsInteger(Params.depth[1])
          \/ request[1].dimension_name \notin Dimensions
          \/ ~HierarchyResolves
          \/ /\ HierarchyResolves
             /\ Supplied(Params.level)
             /\ \A i \in 1..Len(ResolvedLevels) :
                    ResolvedLevels[i] # Params.level[1]
    \/ Served("report") /\ request[1].DATA.queries = None

\* C5: malformed input (ambiguous depth/level, non-integer depth, unknown
\* dimension, hierarchy or level, a report body without queries) ends the
\* request in the ValidationError outcome, HTTP 400.
C5_MalformedIsBadRequest ==
    (Done /\ Wellformed /\ Quiet /\ Malformed) => Outcome = "bad_request"

\* C6: get_cell never yields None: the authorizer and the engine operations
\* that take a cell receive an explicit Cell, empty when there are no cuts.
C6_CellNeverNone ==
    Done =>
        /\ \A i \in 1..Len(authorizer_calls) : authorizer_calls[i].cell # None
        /\ \A i \in 1..Len(browser_calls) :
               browser_calls[i].op \in {"aggregate", "cell_details", "facts",
                                        "members", "report"}
                   => browser_calls[i].cell # None

\* C7: a page or pagesize that is not an integer is treated as absent: the
\* request does not fail on it and the engine gets no paging value for it.
Paged == {"aggregate", "facts", "members"}
C7_NonIntegerPagingAbsent ==
    Done =>
        \A i \in 1..Len(browser_calls) :
            browser_calls[i].op \in Paged =>
                /\ browser_calls[i].page # None
                       => IsInteger(browser_calls[i].page[1])
                /\ browser_calls[i].page_size # None
                       => IsInteger(browser_calls[i].page_size[1])

\* C8: the Workspace constructor runs at most once in the process, whatever
\* the requests, each served by its own view.
C8_WorkspaceConstructedOnce == constructed <= 1

\* C9: a request that ends in a validation failure has invoked no engine
\* operation.
C9_NoEngineCallBeforeValidationFailure ==
    (Done /\ Outcome = "bad_request") => browser_calls = <<>>

C9_Witness ==
    /\ Served("report")
    /\ Outcome = "bad_request"
    /\ authorizer_calls # <<>>

\* The tokens of an order occurrence: what lies between its commas
Commas(s) == {i \in 1..Len(s) : s[i] = ","}
Bounds(s) == Commas(s) \cup {0, Len(s) + 1}
Nth(S, k) == CHOOSE p \in S : Cardinality({x \in S : x < p}) = k - 1
Token(s, k) == SubSeq(s, Nth(Bounds(s), k) + 1, Nth(Bounds(s), k + 1) - 1)
TokenCount(s) == Cardinality(Commas(s)) + 1
RECURSIVE TokensBefore(_, _)
\* the number of tokens in the first n occurrences
TokensBefore(occurrences, n) ==
    IF n = 0 THEN 0
    ELSE TokensBefore(occurrences, n - 1) + TokenCount(occurrences[n])
Colons(t) == {i \in 1..Len(t) : t[i] = ":"}

\* C10: request.order has one pair per token of every order occurrence, in
\* encounter order: (field, None) for a token without direction, (field,
\* direction) for a token field:direction.
C10_OrderFlattened ==
    Done =>
        LET occurrences == Params.order
            order == request[1].order
        IN  /\ Len(order) = TokensBefore(occurrences, Len(occurrences))
            /\ \A n \in 1..Len(occurrences) :
                 \A k \in 1..TokenCount(occurrences[n]) :
                   LET t == Token(occurrences[n], k)
                       pair == order[TokensBefore(occurrences, n - 1) + k]
                   IN  /\ Colons(t) = {} => pair = <<t, None>>
                       /\ Cardinality(Colons(t)) = 1 =>
                            LET c == CHOOSE i \in Colons(t) : TRUE
                            IN  pair = <<SubSeq(t, 1, c - 1),
                                         Some(SubSeq(t, c + 1, Len(t)))>>

C10_Witness ==
    /\ Done
    /\ Len(Params.order) = 2
    /\ Len(request[1].order) = 3
    /\ \E i \in 1..3 : request[1].order[i][2] = None
    /\ \E i \in 1..3 : request[1].order[i] = << <<"f">>, Some(<<"f">>) >>
====
